---------------------------- MODULE Spec2Model ----------------------------
(***************************************************************************)
(* A model of the genetic-algorithm TSP solver of src/GenAlgo/main.go:     *)
(* the LRU fitness cache (LRUCache.Get / LRUCache.Put under one mutex),    *)
(* the canonical key of a tour (normalizePath / getKey), the tour length   *)
(* (calculateDistance) and the worker pool of evaluatePopulation.          *)
(*                                                                         *)
(* Go slices are 0-based and TLA+ sequences 1-based: position i of a Go    *)
(* slice is position i+1 of the sequence that models it.  Cities keep      *)
(* their Go numbers: city 0 is the anchor, a path holds cities 1..N-1.     *)
(***************************************************************************)
EXTENDS Integers, Sequences, FiniteSets, TLC

VARIABLES
    dm,          \* the distance matrix, dm[i][j], cities 0..N-1
    kTour,       \* key/length specification: the tour sequence T
    kRot,        \* key/length specification: a cyclic rotation R of T
    kOut,        \* key/length specification: results computed so far
    capacity,    \* LRUCache.capacity
    cache,       \* LRUCache.cache: the keys the map holds an element for
    list,        \* LRUCache.list: the cacheEntry values, front (most recent) first
    mutex,       \* LRUCache.mutex: NoOwner, or the caller that holds it
    cpc,         \* per caller: the statement of Get / Put it is about to execute
    ckey,        \* per caller: the key argument
    cval,        \* per caller: the value argument of Put
    cfound,      \* per caller: the bool Get returns
    cret,        \* per caller: the float64 Get returns
    coldest,     \* per caller: the key of Put's local `oldest` element
    pre,         \* history, per caller: cache content and access order when it locked
    recency,     \* history: the present keys by last access, most recent first
    lastPut,     \* history: per key, the value of its last put since it was last evicted
    workers,     \* evaluatePopulation: runtime.NumCPU(), the number of worker goroutines
    population,  \* evaluatePopulation: the routes, each [path, distance]
    jobs,        \* evaluatePopulation: the indices buffered in the channel
    closed,      \* evaluatePopulation: whether the channel is closed
    wg,          \* evaluatePopulation: the WaitGroup counter
    mpc,         \* the calling goroutine: the statement it is about to execute
    mi,          \* the calling goroutine: the index the send loop is at
    wpc,         \* per worker: the statement it is about to execute
    wi,          \* per worker: the index i it received
    wkey,        \* per worker: its local `key`
    taken,     \* history, per index: how many times it was received from the channel
    written,   \* history, per index: how many times the distance of its slot was written
    bop,         \* breeder: the function called, "crossover" or "mutate"
    bpc,         \* breeder: "loop" inside the attempt loop, "returned" after the return
    bAttempt,    \* breeder: the loop variable `attempt`
    bParent1,    \* cachedCrossover: parent1
    bParent2,    \* cachedCrossover: parent2
    bChild1,     \* cachedCrossover: child1 of the latest crossover call
    bChild2,     \* cachedCrossover: child2 of the latest crossover call
    bRoute,      \* cachedMutate: the parameter `route`
    bMutated,    \* cachedMutate: the route the latest mutate call returned
    bRate,       \* cachedMutate: mutationRate, an exact fraction
    bOriginalRate, \* cachedMutate: originalRate
    bhist,       \* history of the breeder call (see NoHistory)
    lpc,         \* main: the statement it is about to execute
    cfg,         \* main: the flags and whether an input file is named
    gen,         \* main: the loop variable `gen`
    newPopulation, \* main: newPopulation
    best,        \* main: best
    child1,      \* main: child1 once cachedMutate has returned it
    lhist        \* history of the run (see NoRun)

keyVars == <<kTour, kRot, kOut>>
cacheVars == <<capacity, cache, list, mutex>>
callVars == <<cpc, ckey, cval, cfound, cret, coldest>>
histVars == <<pre, recency, lastPut>>
evalVars == <<workers, population, jobs, closed, wg, mpc, mi, wpc, wi, wkey,
              taken, written>>
breedVars == <<bop, bpc, bAttempt, bParent1, bParent2, bChild1, bChild2, bRoute,
               bMutated, bRate, bOriginalRate, bhist>>
loopVars == <<lpc, cfg, gen, newPopulation, best, child1, lhist>>
gaVars == <<breedVars, loopVars>>
nonCacheVars == <<dm, keyVars, evalVars, gaVars>>
nonKeyVars == <<cacheVars, callVars, histVars, evalVars, gaVars>>
vars == <<dm, keyVars, cacheVars, callVars, histVars, evalVars, gaVars>>

(***************************************************************************)
(* Inputs.  Coordinates are integers chosen so that every pairwise         *)
(* distance is an integer (a 3-4-5 triangle, a 3 x 4 rectangle):           *)
(* math.Hypot is then exact and float64 sums of the distances are exact    *)
(* integers as well.                                                       *)
(***************************************************************************)
Point(px, py) == [x |-> px, y |-> py]

PointSets ==
    { <<Point(0, 0), Point(3, 0), Point(3, 4)>>,
      <<Point(0, 0), Point(3, 0), Point(3, 4), Point(0, 4)>> }

Abs(n) == IF n < 0 THEN -n ELSE n

\* math.Hypot(dx, dy) = sqrt(dx*dx + dy*dy), on inputs whose result is an integer.
Hypot(dx, dy) == CHOOSE r \in 0..(Abs(dx) + Abs(dy)) : r * r = dx * dx + dy * dy

\* points is the 1-based sequence of the input points: city i is points[i+1].
createDistanceMatrix(points) ==
    LET n == Len(points)
    IN [i \in 0..(n - 1) |->
           [j \in 0..(n - 1) |->
               Hypot(points[i + 1].x - points[j + 1].x,
                     points[i + 1].y - points[j + 1].y)]]

Distance(m, i, j) == m[i][j]

NumCities(m) == Cardinality(DOMAIN m)

\* The valid tours over N cities: the permutations of 1..N-1 (what randomRoute
\* can return by shuffling 1..N-1).
Tours(numCities) ==
    LET size == numCities - 1
    IN {p \in [1..size -> 1..size] : \A i, j \in 1..size : p[i] = p[j] => i = j}

(***************************************************************************)
(* normalizePath: the scan keeps the first position of the smallest value  *)
(* (strict <), then the path is rotated so that this position comes first. *)
(***************************************************************************)
RECURSIVE MinScan(_, _, _)
MinScan(path, i, minIdx) ==
    IF i > Len(path) THEN minIdx
    ELSE IF path[i] < path[minIdx] THEN MinScan(path, i + 1, i)
    ELSE MinScan(path, i + 1, minIdx)

\* Fault: append(path[:minIdx], path[minIdx:]...), which rotates nothing.
normalizePathSwappedAppend(path) == path

normalizePath(path) ==
    IF Len(path) = 0 THEN path
    ELSE LET minIdx == MinScan(path, 1, 1)
         IN SubSeq(path, minIdx, Len(path)) \o SubSeq(path, 1, minIdx - 1)

Digit == <<"0", "1", "2", "3", "4", "5", "6", "7", "8", "9">>

\* strconv.Itoa on a non-negative integer.
RECURSIVE Itoa(_)
Itoa(n) == IF n < 10 THEN Digit[n + 1] ELSE Itoa(n \div 10) \o Digit[(n % 10) + 1]

\* The builder loop of getKey from position i on: a ',' before every city but the first.
RECURSIVE WriteCities(_, _)
WriteCities(normalized, i) ==
    IF i > Len(normalized) THEN ""
    ELSE (IF i > 1 THEN "," ELSE "") \o Itoa(normalized[i]) \o WriteCities(normalized, i + 1)

getKey(path) == WriteCities(normalizePath(path), 1)

(***************************************************************************)
(* calculateDistance: city 0 -> path[0] -> ... -> path[last] -> city 0.    *)
(***************************************************************************)
RECURSIVE SumFrom(_, _, _, _)
SumFrom(path, m, i, prev) ==
    IF i > Len(path) THEN Distance(m, prev, 0)
    ELSE Distance(m, prev, path[i]) + SumFrom(path, m, i + 1, path[i])

calculateDistance(path, m) == SumFrom(path, m, 1, 0)

(***************************************************************************)
(* The LRU cache.  The Go map holds, for each key, a pointer to the list   *)
(* element that carries the cacheEntry of that key; here `cache` is the    *)
(* set of keys of the map and the element of a key is the entry of `list`  *)
(* with that key.  The operators below are the container/list calls on     *)
(* that representation.                                                    *)
(***************************************************************************)
MaxCapacity == 2
MaxKeys == 3
MaxVal == 3
NumCallers == 2

KeyNames == <<"a", "b", "c", "d", "e", "f">>
Keys == {KeyNames[i] : i \in 1..MaxKeys}
Values == 1..MaxVal
Callers == 1..NumCallers

NoOwner == 0
NoKey == ""
NoValue == 0

cacheEntry(k, v) == [key |-> k, value |-> v]

ListKeys(l) == {l[i].key : i \in DOMAIN l}

Without(l, k) == SelectSeq(l, LAMBDA e : e.key # k)

\* elem.Value.(*cacheEntry).value of the element of key k (the zero value for a
\* key whose element has left the list, which only an unsynchronised caller meets).
ValueOf(l, k) ==
    IF k \in ListKeys(l) THEN l[CHOOSE i \in DOMAIN l : l[i].key = k].value ELSE NoValue

\* Fault: list.Remove(elem) where the code calls list.MoveToFront(elem).
MoveToFrontRemoves(l, k) == Without(l, k)

\* list.MoveToFront(elem): nothing happens for an element that is not in the list.
MoveToFront(l, k) ==
    IF k \in ListKeys(l) THEN <<cacheEntry(k, ValueOf(l, k))>> \o Without(l, k) ELSE l

\* Fault: the eviction takes list.Front() for list.Back().
BackTakesFront(l) == l[1]

\* list.Back()
Back(l) == l[Len(l)]

\* list.Remove(elem)
Remove(l, k) == Without(l, k)

\* list.PushFront(&cacheEntry{key, value})
PushFront(l, e) == <<e>> \o l

\* Fault: Put on a present key forgets to store the value.
SetValueSkipped(l, k, v) == l

\* elem.Value.(*cacheEntry).value = value
SetValue(l, k, v) == [i \in DOMAIN l |-> IF l[i].key = k THEN cacheEntry(k, v) ELSE l[i]]

\* Fault: > for >= in the capacity test.
FullOffByOne(l, cap) == Len(l) > cap

\* lc.list.Len() >= lc.capacity
Full(l, cap) == Len(l) >= cap

\* Fault: Get and Put without the mutex.
UnlockedAlways(m) == TRUE

\* lc.mutex.Lock() returns only while no caller holds the mutex.
Unlocked(m) == m = NoOwner

(***************************************************************************)
(* Get and Put as one sequential call each, on lc = [cache, list].         *)
(***************************************************************************)
LRU(c, l) == [cache |-> c, list |-> l]

Get(lc, key) ==
    IF key \in lc.cache
    THEN [lc |-> LRU(lc.cache, MoveToFront(lc.list, key)),
          value |-> ValueOf(lc.list, key), found |-> TRUE]
    ELSE [lc |-> lc, value |-> 0, found |-> FALSE]

Put(lc, cap, key, value) ==
    IF key \in lc.cache
    THEN LRU(lc.cache, SetValue(MoveToFront(lc.list, key), key, value))
    ELSE LET evict == Full(lc.list, cap)
             oldest == Back(lc.list).key
             c1 == IF evict THEN lc.cache \ {oldest} ELSE lc.cache
             l1 == IF evict THEN Remove(lc.list, oldest) ELSE lc.list
         IN LRU(c1 \cup {key}, PushFront(l1, cacheEntry(key, value)))

(***************************************************************************)
(* Get and Put statement by statement, for concurrent callers.  A caller   *)
(* draws its arguments when it enters the call; Lock() is the guard of the *)
(* first step and the deferred Unlock() is the last step.                  *)
(***************************************************************************)
NoSnapshot == [cache |-> {}, list |-> <<>>, recency |-> <<>>]

\* History: key k has just been accessed.
Accessed(r, k) == <<k>> \o SelectSeq(r, LAMBDA x : x # k)

\* History: key k has just been evicted.
Evicted(r, k) == SelectSeq(r, LAMBDA x : x # k)

CallersIdle ==
    /\ cpc = [t \in Callers |-> "idle"]
    /\ ckey = [t \in Callers |-> NoKey]
    /\ cval = [t \in Callers |-> NoValue]
    /\ cfound = [t \in Callers |-> FALSE]
    /\ cret = [t \in Callers |-> NoValue]
    /\ coldest = [t \in Callers |-> NoKey]
    /\ pre = [t \in Callers |-> NoSnapshot]

NewLRUCache(cap) ==
    /\ capacity = cap
    /\ cache = {}
    /\ list = <<>>
    /\ mutex = NoOwner

CacheUnused ==
    /\ NewLRUCache(1)
    /\ CallersIdle
    /\ recency = <<>>
    /\ lastPut = [k \in {} |-> NoValue]

KeyUnused ==
    /\ kTour = <<>>
    /\ kRot = <<>>
    /\ kOut = <<>>

BreedUnused ==
    /\ bop = "unused"
    /\ bpc = "unused"
    /\ bAttempt = 0
    /\ bParent1 = <<>>
    /\ bParent2 = <<>>
    /\ bChild1 = <<>>
    /\ bChild2 = <<>>
    /\ bRoute = <<>>
    /\ bMutated = <<>>
    /\ bRate = <<>>
    /\ bOriginalRate = <<>>
    /\ bhist = <<>>

LoopUnused ==
    /\ lpc = "unused"
    /\ cfg = <<>>
    /\ gen = 0
    /\ newPopulation = <<>>
    /\ best = <<>>
    /\ child1 = <<>>
    /\ lhist = <<>>

GaUnused == BreedUnused /\ LoopUnused

EvalUnused ==
    /\ workers = 0
    /\ population = <<>>
    /\ jobs = <<>>
    /\ closed = FALSE
    /\ wg = 0
    /\ mpc = "idle"
    /\ mi = 0
    /\ wpc = <<>>
    /\ wi = <<>>
    /\ wkey = <<>>
    /\ taken = <<>>
    /\ written = <<>>

InitCache ==
    /\ GaUnused
    /\ dm = <<>>
    /\ KeyUnused
    /\ EvalUnused
    /\ \E cap \in 1..MaxCapacity : NewLRUCache(cap)
    /\ CallersIdle
    /\ recency = <<>>
    /\ lastPut = [k \in Keys |-> NoValue]

Snapshot == [cache |-> cache, list |-> list, recency |-> recency]

\* func (lc *LRUCache) Get(key string): lc.mutex.Lock()
GetLock(t, k) ==
    /\ cpc[t] = "idle"
    /\ Unlocked(mutex)
    /\ mutex' = t
    /\ cpc' = [cpc EXCEPT ![t] = "Get_lookup"]
    /\ ckey' = [ckey EXCEPT ![t] = k]
    /\ pre' = [pre EXCEPT ![t] = Snapshot]
    /\ recency' = IF k \in ListKeys(list) THEN Accessed(recency, k) ELSE recency
    /\ UNCHANGED <<nonCacheVars, capacity, cache, list, cval, cfound, cret, coldest, lastPut>>

\* if elem, exists := lc.cache[key]; exists { ... } return 0, false
GetLookup(t) ==
    /\ cpc[t] = "Get_lookup"
    /\ IF ckey[t] \in cache
       THEN /\ cpc' = [cpc EXCEPT ![t] = "Get_hit"]
            /\ UNCHANGED <<cfound, cret>>
       ELSE /\ cpc' = [cpc EXCEPT ![t] = "Get_unlock"]
            /\ cfound' = [cfound EXCEPT ![t] = FALSE]
            /\ cret' = [cret EXCEPT ![t] = 0]
    /\ UNCHANGED <<nonCacheVars, cacheVars, ckey, cval, coldest, histVars>>

\* lc.list.MoveToFront(elem); return elem.Value.(*cacheEntry).value, true
GetHit(t) ==
    /\ cpc[t] = "Get_hit"
    /\ list' = MoveToFront(list, ckey[t])
    /\ cret' = [cret EXCEPT ![t] = ValueOf(list, ckey[t])]
    /\ cfound' = [cfound EXCEPT ![t] = TRUE]
    /\ cpc' = [cpc EXCEPT ![t] = "Get_unlock"]
    /\ UNCHANGED <<nonCacheVars, capacity, cache, mutex, ckey, cval, coldest, histVars>>

\* defer lc.mutex.Unlock(), and the return to the caller
GetUnlock(t) ==
    /\ cpc[t] = "Get_unlock"
    /\ mutex' = NoOwner
    /\ cpc' = [cpc EXCEPT ![t] = "idle"]
    /\ ckey' = [ckey EXCEPT ![t] = NoKey]
    /\ cfound' = [cfound EXCEPT ![t] = FALSE]
    /\ cret' = [cret EXCEPT ![t] = NoValue]
    /\ pre' = [pre EXCEPT ![t] = NoSnapshot]
    /\ UNCHANGED <<nonCacheVars, capacity, cache, list, cval, coldest, recency, lastPut>>

\* func (lc *LRUCache) Put(key string, value float64): lc.mutex.Lock()
PutLock(t, k, v) ==
    /\ cpc[t] = "idle"
    /\ Unlocked(mutex)
    /\ mutex' = t
    /\ cpc' = [cpc EXCEPT ![t] = "Put_lookup"]
    /\ ckey' = [ckey EXCEPT ![t] = k]
    /\ cval' = [cval EXCEPT ![t] = v]
    /\ pre' = [pre EXCEPT ![t] = Snapshot]
    /\ recency' = Accessed(recency, k)
    /\ lastPut' = [lastPut EXCEPT ![k] = v]
    /\ UNCHANGED <<nonCacheVars, capacity, cache, list, cfound, cret, coldest>>

\* if elem, exists := lc.cache[key]; exists
PutLookup(t) ==
    /\ cpc[t] = "Put_lookup"
    /\ cpc' = [cpc EXCEPT ![t] = IF ckey[t] \in cache THEN "Put_move" ELSE "Put_check"]
    /\ UNCHANGED <<nonCacheVars, cacheVars, ckey, cval, cfound, cret, coldest, histVars>>

\* lc.list.MoveToFront(elem)
PutMove(t) ==
    /\ cpc[t] = "Put_move"
    /\ list' = MoveToFront(list, ckey[t])
    /\ cpc' = [cpc EXCEPT ![t] = "Put_set"]
    /\ UNCHANGED <<nonCacheVars, capacity, cache, mutex, ckey, cval, cfound, cret, coldest, histVars>>

\* elem.Value.(*cacheEntry).value = value; return
PutSet(t) ==
    /\ cpc[t] = "Put_set"
    /\ list' = SetValue(list, ckey[t], cval[t])
    /\ cpc' = [cpc EXCEPT ![t] = "Put_unlock"]
    /\ UNCHANGED <<nonCacheVars, capacity, cache, mutex, ckey, cval, cfound, cret, coldest, histVars>>

\* if lc.list.Len() >= lc.capacity
PutCheck(t) ==
    /\ cpc[t] = "Put_check"
    /\ cpc' = [cpc EXCEPT ![t] = IF Full(list, capacity) THEN "Put_delete" ELSE "Put_push"]
    /\ UNCHANGED <<nonCacheVars, cacheVars, ckey, cval, cfound, cret, coldest, histVars>>

\* oldest := lc.list.Back(); delete(lc.cache, oldest.Value.(*cacheEntry).key)
\* (Back() is nil on an empty list; with capacity >= 1 a full list is not empty.)
PutDelete(t) ==
    /\ cpc[t] = "Put_delete"
    /\ Len(list) > 0
    /\ coldest' = [coldest EXCEPT ![t] = Back(list).key]
    /\ cache' = cache \ {Back(list).key}
    /\ recency' = Evicted(recency, Back(list).key)
    /\ lastPut' = [lastPut EXCEPT ![Back(list).key] = NoValue]
    /\ cpc' = [cpc EXCEPT ![t] = "Put_remove"]
    /\ UNCHANGED <<nonCacheVars, capacity, list, mutex, ckey, cval, cfound, cret, pre>>

\* lc.list.Remove(oldest)
PutRemove(t) ==
    /\ cpc[t] = "Put_remove"
    /\ list' = Remove(list, coldest[t])
    /\ cpc' = [cpc EXCEPT ![t] = "Put_push"]
    /\ UNCHANGED <<nonCacheVars, capacity, cache, mutex, ckey, cval, cfound, cret, coldest, histVars>>

\* elem := lc.list.PushFront(&cacheEntry{key, value})
PutPush(t) ==
    /\ cpc[t] = "Put_push"
    /\ list' = PushFront(list, cacheEntry(ckey[t], cval[t]))
    /\ cpc' = [cpc EXCEPT ![t] = "Put_store"]
    /\ UNCHANGED <<nonCacheVars, capacity, cache, mutex, ckey, cval, cfound, cret, coldest, histVars>>

\* lc.cache[key] = elem
PutStore(t) ==
    /\ cpc[t] = "Put_store"
    /\ cache' = cache \cup {ckey[t]}
    /\ cpc' = [cpc EXCEPT ![t] = "Put_unlock"]
    /\ UNCHANGED <<nonCacheVars, capacity, list, mutex, ckey, cval, cfound, cret, coldest, histVars>>

\* defer lc.mutex.Unlock(), and the return to the caller
PutUnlock(t) ==
    /\ cpc[t] = "Put_unlock"
    /\ mutex' = NoOwner
    /\ cpc' = [cpc EXCEPT ![t] = "idle"]
    /\ ckey' = [ckey EXCEPT ![t] = NoKey]
    /\ cval' = [cval EXCEPT ![t] = NoValue]
    /\ coldest' = [coldest EXCEPT ![t] = NoKey]
    /\ pre' = [pre EXCEPT ![t] = NoSnapshot]
    /\ UNCHANGED <<nonCacheVars, capacity, cache, list, cfound, cret, recency, lastPut>>

NextCache ==
    \E t \in Callers :
        \/ \E k \in Keys : GetLock(t, k)
        \/ GetLookup(t)
        \/ GetHit(t)
        \/ GetUnlock(t)
        \/ \E k \in Keys, v \in Values : PutLock(t, k, v)
        \/ PutLookup(t)
        \/ PutMove(t)
        \/ PutSet(t)
        \/ PutCheck(t)
        \/ PutDelete(t)
        \/ PutRemove(t)
        \/ PutPush(t)
        \/ PutStore(t)
        \/ PutUnlock(t)

SpecCache == InitCache /\ [][NextCache]_vars

(***************************************************************************)
(* Claims about the cache, under SpecCache.                                *)
(***************************************************************************)
Inside(t) == cpc[t] # "idle"

\* A put of a key that was absent when the call locked a cache holding `capacity` entries.
PutOnFull(t) ==
    /\ cpc[t] = "Put_unlock"
    /\ ckey[t] \notin ListKeys(pre[t].list)
    /\ Len(pre[t].list) = capacity

LeastRecentlyAccessed(r) == r[Len(r)]

\* C4: a put of an absent key into a full cache removes exactly one entry, the one
\* whose last access (successful get, or put) is the oldest, and inserts the new
\* key as most recently used; every other entry keeps its value and its place.
C4_EvictsLeastRecentlyUsed ==
    \A t \in Callers :
        PutOnFull(t) =>
            LET lru == LeastRecentlyAccessed(pre[t].recency)
            IN /\ ListKeys(pre[t].list) \ ListKeys(list) = {lru}
               /\ list = <<cacheEntry(ckey[t], cval[t])>>
                         \o SelectSeq(pre[t].list, LAMBDA e : e.key # lru)
               /\ cache = ListKeys(list)

\* C4 witness: capacity 2, put(a,1), put(b,2), put(c,3) has just run: a is gone,
\* b and c are present with the values 2 and 3.
C4_Witness ==
    \E t \in Callers :
        /\ PutOnFull(t)
        /\ capacity = 2
        /\ ckey[t] = "c" /\ cval[t] = 3
        /\ pre[t].list = <<cacheEntry("b", 2), cacheEntry("a", 1)>>
        /\ "a" \notin cache /\ "a" \notin ListKeys(list)
        /\ ValueOf(list, "b") = 2 /\ ValueOf(list, "c") = 3

\* C5: after put(k, v), until k is evicted or put again, every get(k) returns
\* found with the value v, whatever happens to other keys in between.
C5_GetReturnsLastPut ==
    \A t \in Callers :
        (cpc[t] = "Get_unlock" /\ lastPut[ckey[t]] # NoValue) =>
            (cfound[t] /\ cret[t] = lastPut[ckey[t]])

\* C5 witness: a get that found its key although another key had been accessed
\* after it (the key was not at the front when the call locked).
C5_Witness ==
    \E t \in Callers :
        /\ cpc[t] = "Get_unlock"
        /\ cfound[t]
        /\ cret[t] = lastPut[ckey[t]]
        /\ Len(pre[t].list) >= 2
        /\ pre[t].list[1].key # ckey[t]

\* C6: the cache never holds more than `capacity` entries, in the map or in the
\* list, and between calls the map and the list hold the same keys, once each.
C6_CapacityBound ==
    /\ Len(list) <= capacity
    /\ Cardinality(cache) <= capacity
    /\ mutex = NoOwner =>
          /\ cache = ListKeys(list)
          /\ Cardinality(ListKeys(list)) = Len(list)

\* C6 witness: a put that had to evict has refilled the largest cache.
C6_Witness ==
    \E t \in Callers :
        /\ cpc[t] = "Put_unlock"
        /\ coldest[t] # NoKey
        /\ capacity = MaxCapacity
        /\ Len(list) = capacity
        /\ Cardinality(cache) = capacity

\* C7: calls are atomic.  At most one caller is inside Get or Put; a caller that
\* has just locked sees a map and a list that agree; and what a call returns and
\* leaves behind is what the same call, run alone on the cache content it found
\* when it locked, returns and leaves behind: the calls take effect one after
\* another, in the order in which they locked.
C7_CallsAreAtomic ==
    /\ \A t, u \in Callers : (Inside(t) /\ Inside(u)) => t = u
    /\ \A t \in Callers :
          /\ cpc[t] \in {"Get_lookup", "Put_lookup"} =>
                /\ cache = ListKeys(list)
                /\ Cardinality(ListKeys(list)) = Len(list)
                /\ LRU(cache, list) = LRU(pre[t].cache, pre[t].list)
          /\ cpc[t] = "Get_unlock" =>
                LET r == Get(LRU(pre[t].cache, pre[t].list), ckey[t])
                IN /\ LRU(cache, list) = r.lc
                   /\ cfound[t] = r.found
                   /\ cret[t] = r.value
          /\ cpc[t] = "Put_unlock" =>
                LRU(cache, list) = Put(LRU(pre[t].cache, pre[t].list), capacity, ckey[t], cval[t])

\* C7 witness: a put is half-way through an eviction (the key is out of the map
\* and still in the list) while it holds the mutex and the other callers are outside.
C7_Witness ==
    \E t \in Callers :
        /\ cpc[t] = "Put_remove"
        /\ mutex = t
        /\ cache # ListKeys(list)
        /\ \A u \in Callers \ {t} : ~Inside(u)

(***************************************************************************)
(* Key/length specification: a tour T, a cyclic rotation R of T, and the   *)
(* canonical key and the length of each, computed one call at a time.      *)
(***************************************************************************)
Rotate(path, k) == SubSeq(path, k + 1, Len(path)) \o SubSeq(path, 1, k)

NoOutput == [n \in {} |-> 0]

Computed(n) == n \in DOMAIN kOut

InitKey ==
    /\ GaUnused
    /\ \E pts \in PointSets : dm = createDistanceMatrix(pts)
    /\ kTour \in Tours(NumCities(dm))
    /\ \E k \in 0..(Len(kTour) - 1) : kRot = Rotate(kTour, k)
    /\ kOut = NoOutput
    /\ CacheUnused
    /\ EvalUnused

KeyOfTour ==
    /\ ~Computed("keyT")
    /\ kOut' = ("keyT" :> getKey(kTour)) @@ kOut
    /\ UNCHANGED <<dm, kTour, kRot, nonKeyVars>>

KeyOfRotation ==
    /\ ~Computed("keyR")
    /\ kOut' = ("keyR" :> getKey(kRot)) @@ kOut
    /\ UNCHANGED <<dm, kTour, kRot, nonKeyVars>>

LengthOfTour ==
    /\ ~Computed("lenT")
    /\ kOut' = ("lenT" :> calculateDistance(kTour, dm)) @@ kOut
    /\ UNCHANGED <<dm, kTour, kRot, nonKeyVars>>

LengthOfRotation ==
    /\ ~Computed("lenR")
    /\ kOut' = ("lenR" :> calculateDistance(kRot, dm)) @@ kOut
    /\ UNCHANGED <<dm, kTour, kRot, nonKeyVars>>

NextKey == KeyOfTour \/ KeyOfRotation \/ LengthOfTour \/ LengthOfRotation

SpecKey == InitKey /\ [][NextKey]_vars

\* C10: the canonical key is invariant under cyclic rotation: once the keys of a
\* tour T and of a rotation R of T are both computed, they are the same string.
C10_KeyRotationInvariant ==
    (Computed("keyT") /\ Computed("keyR")) => kOut["keyR"] = kOut["keyT"]

\* C10 witness: both keys computed for a rotation that moved the smallest city
\* away from the front, so normalizePath had to rotate it back.
C10_Witness ==
    /\ Computed("keyT") /\ Computed("keyR")
    /\ kRot # kTour
    /\ kRot[1] # 1
    /\ Len(kTour) = 3

\* C2 (as claimed): a rotation of a tour's stored sequence has the same length,
\* so one cached length is right for every tour with that canonical key.
C2_RotationKeepsLength ==
    (Computed("lenT") /\ Computed("lenR")) => kOut["lenR"] = kOut["lenT"]


(***************************************************************************)
(* evaluatePopulation.  The initial state is the one in which the caller   *)
(* has made the channel and started the workers (wg.Add(1) once each);     *)
(* the workers then run concurrently with the caller's send loop.  A       *)
(* worker's cache.Get and cache.Put run under the cache's mutex and are    *)
(* one step each.  Index i of the Go slice is slot i+1 here.               *)
(***************************************************************************)
MaxPop == 2
MaxWorkers == 2

\* A worker that holds no index.
NoIndex == 0

Route(p, d) == [path |-> p, distance |-> d]

\* close(jobs) has happened and the buffer is drained: `range jobs` ends.
Drained(q, isClosed) == q = <<>> /\ isClosed

\* Fault: a receive that leaves the index in the channel.
DequeuePeeks(q) == q

\* A receive takes the oldest buffered index out of the channel.
Dequeue(q) == Tail(q)

\* Fault: the caller does not wait for the workers.
WaitGroupIgnored(n) == TRUE

\* wg.Wait() returns once the counter is zero.
WaitGroupDone(n) == n = 0

InitEval ==
    /\ GaUnused
    /\ \E pts \in PointSets : dm = createDistanceMatrix(pts)
    /\ KeyUnused
    /\ \E cap \in 1..MaxCapacity : NewLRUCache(cap)
    /\ CallersIdle
    /\ recency = <<>>
    /\ lastPut = <<>>
    /\ workers \in 1..MaxWorkers
    /\ \E n \in 0..MaxPop :
          /\ population \in [1..n -> {Route(p, 0) : p \in Tours(NumCities(dm))}]
          /\ taken = [i \in 1..n |-> 0]
          /\ written = [i \in 1..n |-> 0]
    /\ jobs = <<>>
    /\ closed = FALSE
    /\ wg = workers
    /\ mpc = "send"
    /\ mi = 1
    /\ wpc = [w \in 1..workers |-> "recv"]
    /\ wi = [w \in 1..workers |-> NoIndex]
    /\ wkey = [w \in 1..workers |-> NoKey]

\* for i := range population { jobs <- i }: the buffer holds len(population), so
\* a send never blocks.
Send ==
    /\ mpc = "send"
    /\ mi <= Len(population)
    /\ jobs' = Append(jobs, mi)
    /\ mi' = mi + 1
    /\ UNCHANGED <<dm, keyVars, gaVars, cacheVars, callVars, histVars, workers, population,
                   closed, wg, mpc, wpc, wi, wkey, taken, written>>

\* close(jobs)
Close ==
    /\ mpc = "send"
    /\ mi > Len(population)
    /\ closed' = TRUE
    /\ mpc' = "wait"
    /\ UNCHANGED <<dm, keyVars, gaVars, cacheVars, callVars, histVars, workers, population,
                   jobs, wg, mi, wpc, wi, wkey, taken, written>>

\* wg.Wait(), and the return of evaluatePopulation
Wait ==
    /\ mpc = "wait"
    /\ WaitGroupDone(wg)
    /\ mpc' = "done"
    /\ UNCHANGED <<dm, keyVars, gaVars, cacheVars, callVars, histVars, workers, population,
                   jobs, closed, wg, mi, wpc, wi, wkey, taken, written>>

\* for i := range jobs: receive the next index
Recv(w) ==
    /\ wpc[w] = "recv"
    /\ jobs # <<>>
    /\ wi' = [wi EXCEPT ![w] = Head(jobs)]
    /\ jobs' = Dequeue(jobs)
    /\ taken' = [taken EXCEPT ![Head(jobs)] = @ + 1]
    /\ wpc' = [wpc EXCEPT ![w] = "get"]
    /\ UNCHANGED <<dm, keyVars, gaVars, cacheVars, callVars, histVars, workers, population,
                   closed, wg, mpc, mi, wkey, written>>

\* for i := range jobs: the channel is closed and empty; defer wg.Done()
Exit(w) ==
    /\ wpc[w] = "recv"
    /\ Drained(jobs, closed)
    /\ wpc' = [wpc EXCEPT ![w] = "exited"]
    /\ wg' = wg - 1
    /\ UNCHANGED <<dm, keyVars, gaVars, cacheVars, callVars, histVars, workers, population,
                   jobs, closed, mpc, mi, wi, wkey, taken, written>>

\* key := getKey(population[i].path); dist, found := cache.Get(key), and then
\* population[i].distance = dist on a hit,
\* population[i].distance = calculateDistance(population[i], dm) on a miss.
\* The write follows Get in the same step: it touches only the worker's own slot.
WorkerGet(w) ==
    /\ wpc[w] = "get"
    /\ LET i == wi[w]
           key == getKey(population[i].path)
           r == Get(LRU(cache, list), key)
       IN /\ cache' = r.lc.cache
          /\ list' = r.lc.list
          /\ written' = [written EXCEPT ![i] = @ + 1]
          /\ IF r.found
             THEN /\ population' = [population EXCEPT ![i].distance = r.value]
                  /\ wpc' = [wpc EXCEPT ![w] = "recv"]
                  /\ wi' = [wi EXCEPT ![w] = NoIndex]
                  /\ UNCHANGED wkey
             ELSE /\ population' = [population EXCEPT
                                       ![i].distance = calculateDistance(population[i].path, dm)]
                  /\ wpc' = [wpc EXCEPT ![w] = "put"]
                  /\ wkey' = [wkey EXCEPT ![w] = key]
                  /\ UNCHANGED wi
    /\ UNCHANGED <<dm, keyVars, gaVars, capacity, mutex, callVars, histVars, workers,
                   jobs, closed, wg, mpc, mi, taken>>

\* cache.Put(key, population[i].distance), and back to the head of the loop
WorkerPut(w) ==
    /\ wpc[w] = "put"
    /\ LET lc == Put(LRU(cache, list), capacity, wkey[w], population[wi[w]].distance)
       IN /\ cache' = lc.cache
          /\ list' = lc.list
    /\ wpc' = [wpc EXCEPT ![w] = "recv"]
    /\ wi' = [wi EXCEPT ![w] = NoIndex]
    /\ wkey' = [wkey EXCEPT ![w] = NoKey]
    /\ UNCHANGED <<dm, keyVars, gaVars, capacity, mutex, callVars, histVars, workers, population,
                   jobs, closed, wg, mpc, mi, taken, written>>

NextEval ==
    \/ Send
    \/ Close
    \/ Wait
    \/ \E w \in 1..workers :
          \/ Recv(w)
          \/ Exit(w)
          \/ WorkerGet(w)
          \/ WorkerPut(w)

SpecEval == InitEval /\ [][NextEval]_vars

\* Two tours with one canonical key and a tour with another: every pattern of
\* cache hits and misses of a population over four cities.
SampleTours == {<<1, 2, 3>>, <<2, 3, 1>>, <<1, 3, 2>>}

\* The calls on four cities whose tours are sample tours, with the smallest or
\* the largest cache.
InitEvalSample ==
    /\ InitEval
    /\ NumCities(dm) = 4
    /\ capacity \in {1, MaxCapacity}
    /\ \A i \in DOMAIN population : population[i].path \in SampleTours

\* A goroutine that can run is eventually run: the program does not stop while
\* a step is possible.
FairSpecEval == InitEvalSample /\ [][NextEval]_vars /\ WF_vars(NextEval)

(***************************************************************************)
(* Claims about evaluatePopulation, under SpecEval / FairSpecEval.         *)
(***************************************************************************)
Returned == mpc = "done"

\* C1 (as claimed): when evaluatePopulation returns, every tour's distance is the
\* direct sum along its own closed cycle 0 -> path[0] -> ... -> path[last] -> 0.
C1_DistanceIsOwnCycleLength ==
    Returned =>
        \A i \in DOMAIN population :
            population[i].distance = calculateDistance(population[i].path, dm)

\* The evaluation as one worker alone performs it, index by index in queue order.
RECURSIVE EvaluateInOrder(_, _, _, _, _)
EvaluateInOrder(pop, m, lc, cap, i) ==
    IF i > Len(pop) THEN pop
    ELSE LET key == getKey(pop[i].path)
             r == Get(lc, key)
             d == calculateDistance(pop[i].path, m)
         IN IF r.found
            THEN EvaluateInOrder([pop EXCEPT ![i].distance = r.value], m, r.lc, cap, i + 1)
            ELSE EvaluateInOrder([pop EXCEPT ![i].distance = d], m,
                                 Put(r.lc, cap, key, d), cap, i + 1)

\* C3 (as claimed): the distances left in the population do not depend on the
\* scheduling of the workers (every interleaving leaves what the in-order run of
\* a single worker leaves, starting from the same empty cache), and two workers
\* that both missed on one key put the same value.
C3_ScheduleIndependent ==
    /\ Returned => population = EvaluateInOrder(population, dm, LRU({}, <<>>), capacity, 1)
    /\ \A w, u \in 1..workers :
          (wpc[w] = "put" /\ wpc[u] = "put" /\ wkey[w] = wkey[u]) =>
              population[wi[w]].distance = population[wi[u]].distance

Holding(w) == wi[w] # NoIndex

\* C8: every index is received from the channel at most once, and exactly once
\* by the time the call returns; no two workers hold the same index, and a worker
\* writes the distance of the slot of the index it holds, so every slot is
\* written at most once and only after its index was received.
C8_EachIndexOnceOwnSlot ==
    /\ \A i \in DOMAIN population :
          /\ taken[i] <= 1
          /\ written[i] <= taken[i]
          /\ Returned => taken[i] = 1
    /\ \A w, u \in 1..workers : (Holding(w) /\ Holding(u) /\ wi[w] = wi[u]) => w = u
    /\ \A w \in 1..workers : Holding(w) => taken[wi[w]] = 1

\* C8 witness: two workers hold the two indices of a population at the same time,
\* one of them having written its slot already.
C8_Witness ==
    /\ Len(population) = 2
    /\ \E w, u \in 1..workers :
          /\ wi[w] = 1 /\ wi[u] = 2
          /\ wpc[w] = "put" /\ wpc[u] = "get"
          /\ written[1] = 1 /\ written[2] = 0

AllExited == \A w \in 1..workers : wpc[w] = "exited"

AllWritten == \A i \in DOMAIN population : written[i] = 1

\* C9: with at least one worker and any population size, evaluatePopulation
\* eventually returns, and when it has returned every worker has exited and
\* every index has had its distance written.
C9_ReturnsAfterAllWritten ==
    /\ <>Returned
    /\ [](Returned => (AllExited /\ AllWritten /\ jobs = <<>>))

\* C9 witness: a call with the most workers on the largest population has
\* returned with every worker exited and every slot written.
C9_Witness ==
    /\ Returned
    /\ workers = MaxWorkers
    /\ Len(population) = MaxPop
    /\ AllExited /\ AllWritten
    /\ \A i \in DOMAIN population : population[i].distance > 0


(***************************************************************************)
(* The genetic operators.  crossover builds two new paths from two parents *)
(* and two cut positions; mutate swaps positions of the path it is given.  *)
(* rand.Intn and rand.Float64 are draws: a cut, a swap position or the     *)
(* decision to mutate is any value the generator can return.               *)
(***************************************************************************)
\* rand.Intn(size) with size := len(path).
Positions(path) == 0..(Len(path) - 1)

\* if a > b { a, b = b, a }
Low(a, b) == IF a > b THEN b ELSE a

High(a, b) == IF a > b THEN a ELSE b

\* make([]int, size), then for i := a; i <= b; i++ { child[i] = parent.path[i] }
CopySegment(parent, a, b) ==
    [i \in 1..Len(parent) |-> IF a + 1 <= i /\ i <= b + 1 THEN parent[i] ELSE 0]

\* used[parent.path[i]] = true for i in a..b
Used(parent, a, b) == {parent[i] : i \in (a + 1)..(b + 1)}

\* Fault: the fill starts on the last position of the copied segment.
FillStartOnCut(b, size) == b % size

\* pos := (b + 1) % size
FillStart(b, size) == (b + 1) % size

\* for _, city := range parent.path { if !used[city] { child[pos] = city;
\* pos = (pos + 1) % size } }, from element i of parent on.
RECURSIVE FillFrom(_, _, _, _, _)
FillFrom(child, parent, used, i, pos) ==
    IF i > Len(parent) THEN child
    ELSE IF parent[i] \notin used
         THEN FillFrom([child EXCEPT ![pos + 1] = parent[i]], parent, used, i + 1,
                       (pos + 1) % Len(child))
         ELSE FillFrom(child, parent, used, i + 1, pos)

fillChild(child, parent, used, b) ==
    FillFrom(child, parent, used, 1, FillStart(b, Len(child)))

\* crossover with the draws a0 and b0; both children are new slices and carry
\* the zero distance of Route{path: ...}.
crossover(parent1, parent2, a0, b0) ==
    LET a == Low(a0, b0)
        b == High(a0, b0)
    IN [child1 |-> Route(fillChild(CopySegment(parent1.path, a, b), parent2.path,
                                   Used(parent1.path, a, b), b), 0),
        child2 |-> Route(fillChild(CopySegment(parent2.path, a, b), parent1.path,
                                   Used(parent2.path, a, b), b), 0)]

\* Every pair of children crossover can return for these parents.
Crossovers(parent1, parent2) ==
    {crossover(parent1, parent2, a0, b0) :
        a0 \in Positions(parent1.path), b0 \in Positions(parent1.path)}

\* route.path[a], route.path[b] = route.path[b], route.path[a]
Swap(path, a, b) == [path EXCEPT ![a + 1] = path[b + 1], ![b + 1] = path[a + 1]]

\* swaps := rand.Intn(3) + 1
MaxSwaps == 3

\* The contents the paths of `paths` can have after one more swap.
SwapOnce(paths) ==
    UNION {{Swap(q, a, b) : a \in Positions(q), b \in Positions(q)} : q \in paths}

\* The contents after one swap, after two, ... or after n swaps.
RECURSIVE Swapped(_, _)
Swapped(paths, n) ==
    IF n = 0 THEN {}
    ELSE LET once == SwapOnce(paths) IN once \cup Swapped(once, n - 1)

\* A mutation rate, kept as an exact fraction.
Rate(n, d) == [num |-> n, den |-> d]

\* rand.Float64() is in [0, 1): a draw with rand.Float64() >= rate exists iff
\* rate < 1, a draw with rand.Float64() < rate exists iff rate > 0.
MayKeep(rate) == rate.num < rate.den

MayMutate(rate) == rate.num > 0

\* mutate: what the slice route.path can hold when the call returns, and
\* whether the call made its swaps (FALSE: the early return).  The swaps are
\* written into route.path itself, and the route returned is the parameter.
mutate(path, rate) ==
    (IF MayKeep(rate) THEN {[path |-> path, swapped |-> FALSE]} ELSE {})
    \cup (IF MayMutate(rate)
          THEN {[path |-> q, swapped |-> TRUE] : q \in Swapped({path}, MaxSwaps)}
          ELSE {})

\* mutationRate *= 1.5
Escalated(rate) == Rate(rate.num * 3, rate.den * 2)

(***************************************************************************)
(* cachedCrossover and cachedMutate, one loop iteration per step.  Both run *)
(* on the goroutine of main while no worker is running, so a cache.Get is  *)
(* one step of the iteration that calls it.                                *)
(***************************************************************************)
\* maxAttempts := 15 (cachedCrossover), maxAttempts := 8 (cachedMutate)
maxAttemptsCrossover == 15
maxAttemptsMutate == 8

\* Fault: attempt <= maxAttempts
LoopRunsOnceMore(attempt, maxAttempts) == attempt <= maxAttempts

\* attempt < maxAttempts
LoopRuns(attempt, maxAttempts) == attempt < maxAttempts

\* Fault: the second child is not probed.
ProbeFirstOnly(lc, key1, key2) ==
    LET r1 == Get(lc, key1) IN [lc |-> r1.lc, ok |-> ~r1.found]

\* if _, exists1 := cache.Get(key1); !exists1 {
\*     if _, exists2 := cache.Get(key2); !exists2 { return child1, child2 } }
Probe(lc, key1, key2) ==
    LET r1 == Get(lc, key1)
    IN IF r1.found THEN [lc |-> r1.lc, ok |-> FALSE]
       ELSE LET r2 == Get(r1.lc, key2) IN [lc |-> r2.lc, ok |-> ~r2.found]

\* The cache after the tours of `tours` were evaluated one after the other.
RECURSIVE CacheAfter(_, _, _, _, _)
CacheAfter(tours, m, lc, cap, i) ==
    IF i > Len(tours) THEN lc
    ELSE LET key == getKey(tours[i])
             r == Get(lc, key)
         IN CacheAfter(tours, m,
                       IF r.found THEN r.lc
                       ELSE Put(r.lc, cap, key, calculateDistance(tours[i], m)),
                       cap, i + 1)

\* The breeder is called on four cities, with a cache that holds what the
\* evaluation of up to MaxSeeds sample tours left in it.
MaxSeeds == 2

Rates == {Rate(0, 1), Rate(1, 10), Rate(1, 1)}

\* History of one breeder call.
\*   calls            crossover / mutate calls made so far
\*   probes           loop iterations that probed the cache so far
\*   viaProbe         the call returned from inside the loop
\*   probeAbsent      the keys probed by the latest iteration were absent from the cache
\*   earlierCollided  every iteration that did not return had a probed key present
\*   kept             the latest mutate call left in route.path what it was passed
\*   swapped          the latest mutate call made its swaps (no early return)
\*   orig             the paths of the routes passed in, as they were at the call
\*   lc0              the cache when the breeder was called
NoHistory(paths, lc) ==
    [calls |-> 0, probes |-> 0, viaProbe |-> FALSE, probeAbsent |-> FALSE,
     earlierCollided |-> TRUE, kept |-> TRUE, swapped |-> FALSE, orig |-> paths, lc0 |-> lc]

InitBreed ==
    /\ \E pts \in PointSets : dm = createDistanceMatrix(pts)
    /\ NumCities(dm) = 4
    /\ KeyUnused
    /\ EvalUnused
    /\ LoopUnused
    /\ \E cap \in 1..MaxCapacity, n \in 0..MaxSeeds :
          \E seeds \in [1..n -> SampleTours] :
              LET lc == CacheAfter(seeds, dm, LRU({}, <<>>), cap, 1)
              IN /\ capacity = cap
                 /\ cache = lc.cache
                 /\ list = lc.list
    /\ mutex = NoOwner
    /\ CallersIdle
    /\ recency = <<>>
    /\ lastPut = <<>>
    /\ bop \in {"crossover", "mutate"}
    /\ bpc = "loop"
    /\ bAttempt = 0
    /\ bChild1 = <<>>
    /\ bChild2 = <<>>
    /\ bMutated = <<>>
    /\ IF bop = "crossover"
       THEN /\ bParent1 \in {Route(p, calculateDistance(p, dm)) : p \in Tours(NumCities(dm))}
            /\ bParent2 \in {Route(p, calculateDistance(p, dm)) : p \in Tours(NumCities(dm))}
            /\ bRoute = <<>>
            /\ bRate = <<>>
            /\ bOriginalRate = <<>>
            /\ bhist = NoHistory(<<bParent1.path, bParent2.path>>, LRU(cache, list))
       ELSE /\ bParent1 = <<>>
            /\ bParent2 = <<>>
            /\ bRoute \in {Route(p, 0) : p \in Tours(NumCities(dm))}
            /\ bRate \in Rates
            /\ bOriginalRate = bRate
            /\ bhist = NoHistory(<<bRoute.path>>, LRU(cache, list))

\* cachedCrossover, lines 127-129 and the probes: what one iteration can draw
\* and find.  absent: neither key was in the cache when the iteration probed.
CrossoverTries(parent1, parent2, lc) ==
    {[child1 |-> kids.child1, child2 |-> kids.child2,
      absent |-> (getKey(kids.child1.path) \notin lc.cache
                  /\ getKey(kids.child2.path) \notin lc.cache),
      r |-> Probe(lc, getKey(kids.child1.path), getKey(kids.child2.path))] :
        kids \in Crossovers(parent1, parent2)}

\* cachedMutate, lines 144-145: what one iteration can draw and find.
MutateTries(path, rate, lc) ==
    {[path |-> m.path, swapped |-> m.swapped, r |-> Get(lc, getKey(m.path))] :
        m \in mutate(path, rate)}

\* cachedCrossover, one iteration of the loop with the outcome t.
CrossoverTry(t) ==
    /\ bop = "crossover"
    /\ bpc = "loop"
    /\ LoopRuns(bAttempt, maxAttemptsCrossover)
    /\ cache' = t.r.lc.cache
    /\ list' = t.r.lc.list
    /\ IF t.r.ok
       THEN /\ bChild1' = t.child1
            /\ bChild2' = t.child2
            /\ bpc' = "returned"
            /\ UNCHANGED bAttempt
       ELSE /\ bAttempt' = bAttempt + 1
            /\ UNCHANGED <<bChild1, bChild2, bpc>>
    /\ UNCHANGED <<dm, keyVars, evalVars, loopVars, capacity, mutex, callVars, histVars,
                   bop, bParent1, bParent2, bRoute, bMutated, bRate, bOriginalRate>>

\* cachedCrossover after the loop: return crossover(parent1, parent2)
CrossoverLast(kids) ==
    /\ bop = "crossover"
    /\ bpc = "loop"
    /\ ~LoopRuns(bAttempt, maxAttemptsCrossover)
    /\ bChild1' = kids.child1
    /\ bChild2' = kids.child2
    /\ bpc' = "returned"
    /\ UNCHANGED <<dm, keyVars, evalVars, loopVars, cacheVars, callVars, histVars, bop,
                   bAttempt, bParent1, bParent2, bRoute, bMutated, bRate, bOriginalRate>>

\* cachedMutate, one iteration of the loop with the outcome t.  mutate writes
\* its swaps into the slice of `route`, and `mutated` is that same slice.
MutateTry(t) ==
    /\ bop = "mutate"
    /\ bpc = "loop"
    /\ LoopRuns(bAttempt, maxAttemptsMutate)
    /\ bRoute' = [bRoute EXCEPT !.path = t.path]
    /\ bMutated' = bRoute'
    /\ cache' = t.r.lc.cache
    /\ list' = t.r.lc.list
    /\ IF t.r.found
       THEN /\ bAttempt' = bAttempt + 1
            /\ bRate' = Escalated(bRate)
            /\ UNCHANGED bpc
       ELSE /\ bpc' = "returned"
            /\ UNCHANGED <<bAttempt, bRate>>
    /\ UNCHANGED <<dm, keyVars, evalVars, loopVars, capacity, mutex, callVars, histVars,
                   bop, bParent1, bParent2, bChild1, bChild2, bOriginalRate>>

\* cachedMutate after the loop: return mutate(route, originalRate)
MutateLast(m) ==
    /\ bop = "mutate"
    /\ bpc = "loop"
    /\ ~LoopRuns(bAttempt, maxAttemptsMutate)
    /\ bRoute' = [bRoute EXCEPT !.path = m.path]
    /\ bMutated' = bRoute'
    /\ bpc' = "returned"
    /\ UNCHANGED <<dm, keyVars, evalVars, loopVars, cacheVars, callVars, histVars, bop,
                   bAttempt, bParent1, bParent2, bChild1, bChild2, bRate, bOriginalRate>>

\* The steps of a breeder call, with the history of the call.
CrossoverAttempt ==
    /\ bop = "crossover"
    /\ \E t \in CrossoverTries(bParent1, bParent2, LRU(cache, list)) :
        /\ CrossoverTry(t)
        /\ bhist' = [bhist EXCEPT !.calls = @ + 1, !.probes = @ + 1,
                                  !.viaProbe = t.r.ok, !.probeAbsent = t.absent,
                                  !.earlierCollided = IF t.r.ok THEN @ ELSE @ /\ ~t.absent]

CrossoverFinal ==
    /\ bop = "crossover"
    /\ \E kids \in Crossovers(bParent1, bParent2) :
        /\ CrossoverLast(kids)
        /\ bhist' = [bhist EXCEPT !.calls = @ + 1, !.viaProbe = FALSE]

MutateAttempt ==
    /\ bop = "mutate"
    /\ \E t \in MutateTries(bRoute.path, bRate, LRU(cache, list)) :
        /\ MutateTry(t)
        /\ bhist' = [bhist EXCEPT !.calls = @ + 1, !.probes = @ + 1,
                                  !.viaProbe = ~t.r.found,
                                  !.probeAbsent = getKey(t.path) \notin cache,
                                  !.earlierCollided = IF t.r.found
                                                      THEN @ /\ getKey(t.path) \in cache
                                                      ELSE @,
                                  !.kept = (t.path = bRoute.path),
                                  !.swapped = t.swapped]

MutateFinal ==
    /\ bop = "mutate"
    /\ \E m \in mutate(bRoute.path, bOriginalRate) :
        /\ MutateLast(m)
        /\ bhist' = [bhist EXCEPT !.calls = @ + 1, !.viaProbe = FALSE,
                                  !.kept = (m.path = bRoute.path),
                                  !.swapped = m.swapped]

NextBreed ==
    \/ CrossoverAttempt
    \/ CrossoverFinal
    \/ MutateAttempt
    \/ MutateFinal

SpecBreed == InitBreed /\ [][NextBreed]_vars

(***************************************************************************)
(* Claims about crossover, mutate, cachedCrossover and cachedMutate, under *)
(* SpecBreed.                                                              *)
(***************************************************************************)
\* A path over n cities that holds each of the cities 1..n-1 exactly once.
IsTour(path, n) ==
    /\ Len(path) = n - 1
    /\ {path[i] : i \in DOMAIN path} = 1..(n - 1)

CrossoverCalled == bop = "crossover" /\ bhist.calls > 0

MutateCalled == bop = "mutate" /\ bhist.calls > 0

BreederReturned == bop \in {"crossover", "mutate"} /\ bpc = "returned"

\* C11: for parents that are permutations of 1..N-1, any cuts, any rate and any
\* swaps, both children of every crossover call cachedCrossover can make and
\* the result of every mutate call cachedMutate has made or can make are
\* permutations of 1..N-1.
C11_OperatorsKeepPermutations ==
    /\ bop = "crossover" =>
          \A kids \in Crossovers(bParent1, bParent2) :
              /\ IsTour(kids.child1.path, NumCities(dm))
              /\ IsTour(kids.child2.path, NumCities(dm))
    /\ bop = "mutate" =>
          /\ IsTour(bRoute.path, NumCities(dm))
          /\ \A m \in mutate(bRoute.path, bRate) \cup mutate(bRoute.path, bOriginalRate) :
                IsTour(m.path, NumCities(dm))

\* C11 witness: cachedCrossover has returned two children that are neither of
\* the parents.
C11_Witness ==
    /\ CrossoverCalled
    /\ bpc = "returned"
    /\ bChild1.path \notin {bParent1.path, bParent2.path}
    /\ bChild2.path \notin {bParent1.path, bParent2.path}

\* C12 (as claimed): after crossover(p1, p2) returns, p1 and p2 hold what they
\* held at the call, and after mutate(t, rate) returns, t holds what it held
\* when it was passed.
C12_OperatorsLeaveInputs ==
    /\ CrossoverCalled => <<bParent1.path, bParent2.path>> = bhist.orig
    /\ MutateCalled => bhist.kept

\* C13: cachedCrossover makes at most maxAttempts probing iterations and at most
\* one crossover call more, and while it has not returned its next crossover
\* call has a result;
\* every iteration that did not return had a probed key in the cache; a return
\* from inside the loop had both keys absent when probed; a return after the
\* loop comes after maxAttempts probing iterations and is not probed.
C13_CachedCrossoverBounded ==
    bop = "crossover" =>
        /\ bhist.probes <= maxAttemptsCrossover
        /\ bhist.calls <= maxAttemptsCrossover + 1
        /\ bhist.earlierCollided
        /\ bpc = "loop" => Crossovers(bParent1, bParent2) # {}
        /\ (bpc = "returned" /\ bhist.viaProbe) =>
              /\ bhist.probeAbsent
              /\ bhist.calls = bhist.probes
        /\ (bpc = "returned" /\ ~bhist.viaProbe) =>
              /\ bhist.probes = maxAttemptsCrossover
              /\ bhist.calls = maxAttemptsCrossover + 1

\* C13 witness: cachedCrossover returned from inside the loop after an earlier
\* iteration had collided.
C13_Witness ==
    /\ bop = "crossover"
    /\ bpc = "returned"
    /\ bhist.viaProbe
    /\ bhist.probes > 1

\* C14: cachedMutate makes at most maxAttempts probing iterations and one mutate
\* call more, and while it has not returned its next mutate call has a result,
\* whatever the cache holds and whatever the rate; a route returned from inside the loop has
\* a key that was absent from the cache when probed.
C14_CachedMutateTerminates ==
    bop = "mutate" =>
        /\ bhist.probes <= maxAttemptsMutate
        /\ bhist.calls <= maxAttemptsMutate + 1
        /\ bpc = "loop" => mutate(bRoute.path, bRate) # {} /\ mutate(bRoute.path, bOriginalRate) # {}
        /\ (bpc = "returned" /\ bhist.viaProbe) =>
              /\ bhist.probeAbsent
              /\ getKey(bMutated.path) \notin cache
        /\ (bpc = "returned" /\ ~bhist.viaProbe) =>
              /\ bhist.probes = maxAttemptsMutate
              /\ bhist.calls = maxAttemptsMutate + 1

\* C14 witness: cachedMutate was called with rate 1.0 and a cache that holds
\* every key, and returned the result of the call after the loop.
C14_Witness ==
    /\ bop = "mutate"
    /\ bpc = "returned"
    /\ ~bhist.viaProbe
    /\ bOriginalRate = Rate(1, 1)
    /\ \A p \in Tours(NumCities(dm)) : getKey(p) \in cache

\* C19 (as claimed): when cachedMutate returns the result of the call after the
\* loop, that result is within MaxSwaps swaps of the sequence the caller passed
\* in, and is that sequence when the call after the loop made no swap.
C19_FallbackMutatesOriginal ==
    (bop = "mutate" /\ bpc = "returned" /\ ~bhist.viaProbe) =>
        /\ bMutated.path \in {bhist.orig[1]} \cup Swapped({bhist.orig[1]}, MaxSwaps)
        /\ ~bhist.swapped => bMutated.path = bhist.orig[1]

\* C20 (as claimed): the breeder leaves the key set, the stored lengths and the
\* recency order of the cache as they were at the call, and the distance of a
\* returned route is not a cached value.
C20_BreederLeavesCache ==
    bop \in {"crossover", "mutate"} =>
        /\ LRU(cache, list) = bhist.lc0
        /\ (CrossoverCalled /\ bpc = "returned") =>
              bChild1.distance = 0 /\ bChild2.distance = 0
        /\ MutateCalled => bMutated.distance = 0

\* C20 (amended): the breeder leaves the key set and the stored lengths of the
\* cache as they were at the call and the distance of a returned route is not a
\* cached value; the recency order is not kept, a probe that finds its key
\* makes that key the most recently used.
C20_BreederKeepsEntries ==
    bop \in {"crossover", "mutate"} =>
        /\ cache = bhist.lc0.cache
        /\ Len(list) = Len(bhist.lc0.list)
        /\ {list[i] : i \in DOMAIN list} = {bhist.lc0.list[i] : i \in DOMAIN bhist.lc0.list}
        /\ (CrossoverCalled /\ bpc = "returned") =>
              bChild1.distance = 0 /\ bChild2.distance = 0
        /\ MutateCalled => bMutated.distance = 0

\* C20 witness: the breeder has returned and a probe has changed the recency
\* order of a cache of two entries.
C20_Witness ==
    /\ BreederReturned
    /\ Len(list) = 2
    /\ list # bhist.lc0.list


(***************************************************************************)
(* main: the evolution loop.  evaluatePopulation is one step here: the     *)
(* step takes any result a schedule of the workers can leave.  A call of   *)
(* cachedCrossover or cachedMutate runs iteration by iteration, with the   *)
(* steps of the breeder above.                                             *)
(***************************************************************************)
\* Every result of evaluatePopulation(pop, m, cache): the workers receive the
\* indices in order (next), at most w indices are held at a time (flying), a
\* held index is before its cache.Get or, after a miss, before its cache.Put.
RECURSIVE EvalRuns(_, _, _, _, _, _, _)
EvalRuns(pop, m, lc, cap, w, next, flying) ==
    IF next > Len(pop) /\ flying = {}
    THEN {[population |-> pop, lc |-> lc]}
    ELSE (IF next <= Len(pop) /\ Cardinality(flying) < w
          THEN EvalRuns(pop, m, lc, cap, w, next + 1, flying \cup {<<next, "get">>})
          ELSE {})
         \cup UNION {
            LET i == f[1]
                key == getKey(pop[i].path)
                r == Get(lc, key)
                d == calculateDistance(pop[i].path, m)
            IN IF f[2] = "get"
               THEN IF r.found
                    THEN EvalRuns([pop EXCEPT ![i].distance = r.value], m, r.lc, cap, w,
                                  next, flying \ {f})
                    ELSE EvalRuns([pop EXCEPT ![i].distance = d], m, r.lc, cap, w,
                                  next, (flying \ {f}) \cup {<<i, "put">>})
               ELSE EvalRuns(pop, m, Put(lc, cap, key, pop[i].distance), cap, w,
                             next, flying \ {f}) : f \in flying}

evaluatePopulation(pop, m, lc, cap, w) == EvalRuns(pop, m, lc, cap, w, 1, {})

\* randomRoute: make([]int, numCities-1) filled with 1..numCities-1 and shuffled.
randomRoute(numCities) == {Route(p, 0) : p \in Tours(numCities)}

\* initializePopulation(popSize, numCities)
initializePopulation(popSize, numCities) == [1..popSize -> randomRoute(numCities)]

\* The permutations of 1..n.
Orders(n) == {f \in [1..n -> 1..n] : \A i, j \in 1..n : f[i] = f[j] => i = j}

\* sort.Slice(population, less) with less on distance: sort.Slice is not
\* stable, routes of equal distance end in any order.
Sortings(pop) ==
    {q \in {[i \in 1..Len(pop) |-> pop[f[i]]] : f \in Orders(Len(pop))} :
        \A i \in 1..(Len(pop) - 1) : q[i].distance <= q[i + 1].distance}

\* Fault: if r.distance <= best.distance { best = r }
updateBestOnTie(r, b) == IF r.distance <= b.distance THEN r ELSE b

\* updateBest: if r.distance < best.distance { best = r }
updateBest(r, b) == IF r.distance < b.distance THEN r ELSE b

\* tournamentSelection, the loop from draw i on.
RECURSIVE Compete(_, _, _, _)
Compete(pop, draws, i, b) ==
    IF i > Len(draws) THEN b
    ELSE Compete(pop, draws, i + 1,
                 IF pop[draws[i]].distance < b.distance THEN pop[draws[i]] ELSE b)

\* tournamentSelection(population, tournamentSize): one draw for `best`, then
\* one draw per iteration of `for i := 1; i < tournamentSize; i++`.
tournamentSelection(pop, tournamentSize) ==
    {Compete(pop, draws, 2, pop[draws[1]]) :
        draws \in [1..(IF tournamentSize > 1 THEN tournamentSize ELSE 1) -> DOMAIN pop]}

\* Fault: the population is replaced without newPopulation[:*popSize].
TruncateKeepsAll(pop, popSize) == pop

\* newPopulation[:*popSize]
Truncate(pop, popSize) == SubSeq(pop, 1, popSize)

\* The smallest of a non-empty set of numbers.
Least(S) == CHOOSE x \in S : \A y \in S : x <= y

\* History: the smallest distance evaluatePopulation has left so far.
Seen(h, pop) ==
    LET ds == {pop[i].distance : i \in DOMAIN pop} \cup (IF h.evaluated THEN {h.minSeen} ELSE {})
    IN IF ds = {} THEN h ELSE [h EXCEPT !.evaluated = TRUE, !.minSeen = Least(ds)]

\* The largest of a non-empty set of numbers.
Most(S) == CHOOSE x \in S : \A y \in S : x >= y

MaxGen == 2

PopSizes == {1, 2}

\* The flags of a run: every population size of PopSizes with every elite size
\* up to one more than it, a tournament of two and the default mutation rate;
\* input is "" when no input file is named.  A population of one route runs
\* for up to MaxGen generations, a larger one for at most one.
Configs ==
    {c \in [input : {"", "file"}, popSize : PopSizes, eliteSize : 0..(Most(PopSizes) + 1),
            tournament : {2}, generations : 0..MaxGen, mutationRate : {Rate(1, 10)}] :
        /\ c.eliteSize <= c.popSize + 1
        /\ c.popSize > 1 => c.generations <= 1}

\* History of a run.
\*   evaluated   evaluatePopulation has returned at least once
\*   minSeen     the smallest distance it has left in a population so far
\*   replaced    the updateBest call of this generation replaced best
\*   breeds      iterations of the breeding loop in this generation
\*   elites      the paths of the first eliteSize routes of the population as sorted
\*   smallest    no route after those was shorter than one of them
NoRun ==
    [evaluated |-> FALSE, minSeen |-> 0, replaced |-> FALSE, breeds |-> 0,
     elites |-> <<>>, smallest |-> TRUE]

\* The file names four cities, or no city at all.
InitLoop ==
    /\ \E pts \in {p \in PointSets : Len(p) = 4} \cup {<<>>} : dm = createDistanceMatrix(pts)
    /\ KeyUnused
    /\ BreedUnused
    /\ NewLRUCache(MaxCapacity)
    /\ CallersIdle
    /\ recency = <<>>
    /\ lastPut = <<>>
    /\ workers = MaxWorkers
    /\ population = <<>>
    /\ jobs = <<>>
    /\ closed = FALSE
    /\ wg = 0
    /\ mpc = "idle"
    /\ mi = 0
    /\ wpc = <<>>
    /\ wi = <<>>
    /\ wkey = <<>>
    /\ taken = <<>>
    /\ written = <<>>
    /\ cfg \in Configs
    /\ lpc = "start"
    /\ gen = 0
    /\ newPopulation = <<>>
    /\ best = <<>>
    /\ child1 = <<>>
    /\ lhist = NoRun

loopFrame == <<dm, keyVars, callVars, histVars, workers, jobs, closed, wg, mpc, mi,
               wpc, wi, wkey, taken, written, capacity, mutex, cfg>>

\* switch { case *inputFile != "": ... default: "No cities specified"; return }
LoadInput ==
    /\ lpc = "start"
    /\ lpc' = IF cfg.input # "" THEN "init" ELSE "reported"
    /\ UNCHANGED <<loopFrame, breedVars, cache, list, population, gen, newPopulation,
                   best, child1, lhist>>

\* population := initializePopulation(*popSize, numCities); with no city
\* randomRoute calls make([]int, -1), which panics.
InitializePopulation ==
    /\ lpc = "init"
    /\ IF NumCities(dm) = 0
       THEN /\ lpc' = "panic"
            /\ UNCHANGED population
       ELSE /\ population' \in initializePopulation(cfg.popSize, NumCities(dm))
            /\ lpc' = "evaluate"
    /\ UNCHANGED <<loopFrame, breedVars, cache, list, gen, newPopulation, best, child1,
                   lhist>>

\* evaluatePopulation(population, dm, cache); best := population[0]
EvaluateInitial ==
    /\ lpc = "evaluate"
    /\ \E run \in evaluatePopulation(population, dm, LRU(cache, list), capacity, workers) :
          /\ population' = run.population
          /\ cache' = run.lc.cache
          /\ list' = run.lc.list
          /\ best' = run.population[1]
          /\ lhist' = Seen(lhist, run.population)
    /\ lpc' = "generation"
    /\ UNCHANGED <<loopFrame, breedVars, gen, newPopulation, child1>>

\* One pass of `for gen := 0; gen < *generations; gen++` up to the breeding
\* loop: sort.Slice, updateBest(population[0]), the elites.  population[:E]
\* panics when E exceeds the capacity of the slice, which is its length here.
Generation ==
    /\ lpc = "generation"
    /\ gen < cfg.generations
    /\ \E sorted \in Sortings(population) :
          /\ population' = sorted
          /\ best' = updateBest(sorted[1], best)
          /\ IF cfg.eliteSize > Len(sorted)
             THEN /\ lpc' = "panic"
                  /\ newPopulation' = <<>>
                  /\ lhist' = [lhist EXCEPT !.replaced = (best' # best)]
             ELSE /\ lpc' = "breed"
                  /\ newPopulation' = SubSeq(sorted, 1, cfg.eliteSize)
                  /\ lhist' = [lhist EXCEPT
                                  !.replaced = (best' # best),
                                  !.breeds = 0,
                                  !.elites = [i \in 1..cfg.eliteSize |-> sorted[i].path],
                                  !.smallest =
                                      \A i \in 1..cfg.eliteSize :
                                          \A j \in (cfg.eliteSize + 1)..Len(sorted) :
                                              sorted[i].distance <= sorted[j].distance]
    /\ UNCHANGED <<loopFrame, breedVars, cache, list, gen, child1>>

\* The loop is over: fmt.Printf("Best route distance ...", best.distance)
Finish ==
    /\ lpc = "generation"
    /\ gen >= cfg.generations
    /\ lpc' = "done"
    /\ UNCHANGED <<loopFrame, breedVars, cache, list, population, gen, newPopulation,
                   best, child1, lhist>>

\* for len(newPopulation) < *popSize: the two tournamentSelection calls and the
\* call of cachedCrossover.
SelectParents ==
    /\ lpc = "breed"
    /\ Len(newPopulation) < cfg.popSize
    /\ bParent1' \in tournamentSelection(population, cfg.tournament)
    /\ bParent2' \in tournamentSelection(population, cfg.tournament)
    /\ bop' = "crossover"
    /\ bpc' = "loop"
    /\ bAttempt' = 0
    /\ lpc' = "crossover"
    /\ lhist' = [lhist EXCEPT !.breeds = @ + 1, !.replaced = FALSE]
    /\ UNCHANGED <<loopFrame, cache, list, population, gen, newPopulation, best, child1,
                   bChild1, bChild2, bRoute, bMutated, bRate, bOriginalRate, bhist>>

\* cachedCrossover runs.
CrossoverStep ==
    /\ lpc = "crossover"
    /\ \/ \E t \in CrossoverTries(bParent1, bParent2, LRU(cache, list)) : CrossoverTry(t)
       \/ \E kids \in Crossovers(bParent1, bParent2) : CrossoverLast(kids)
    /\ UNCHANGED bhist

\* child1 = cachedMutate(child1, *mutationRate, cache): the call.  parent1 and
\* parent2 are dead from here on, and child1 is the argument of the call.
CallMutateFirst ==
    /\ lpc = "crossover"
    /\ bpc = "returned"
    /\ bop' = "mutate"
    /\ bpc' = "loop"
    /\ bAttempt' = 0
    /\ bRoute' = bChild1
    /\ bRate' = cfg.mutationRate
    /\ bOriginalRate' = cfg.mutationRate
    /\ bParent1' = <<>>
    /\ bParent2' = <<>>
    /\ bChild1' = <<>>
    /\ lpc' = "mutate1"
    /\ UNCHANGED <<loopFrame, cache, list, population, gen, newPopulation, best, child1,
                   lhist, bChild2, bMutated, bhist>>

\* cachedMutate runs.
MutateStep ==
    /\ lpc \in {"mutate1", "mutate2"}
    /\ \/ \E t \in MutateTries(bRoute.path, bRate, LRU(cache, list)) : MutateTry(t)
       \/ \E m \in mutate(bRoute.path, bOriginalRate) : MutateLast(m)
    /\ UNCHANGED bhist

\* child1 is assigned; child2 = cachedMutate(child2, *mutationRate, cache): the call.
CallMutateSecond ==
    /\ lpc = "mutate1"
    /\ bpc = "returned"
    /\ child1' = bMutated
    /\ bpc' = "loop"
    /\ bAttempt' = 0
    /\ bRoute' = bChild2
    /\ bRate' = cfg.mutationRate
    /\ bOriginalRate' = cfg.mutationRate
    /\ bChild2' = <<>>
    /\ lpc' = "mutate2"
    /\ UNCHANGED <<loopFrame, cache, list, population, gen, newPopulation, best, lhist,
                   bop, bParent1, bParent2, bChild1, bMutated, bhist>>

\* newPopulation = append(newPopulation, child1, child2); the locals of the
\* iteration are dead after it.
AppendChildren ==
    /\ lpc = "mutate2"
    /\ bpc = "returned"
    /\ newPopulation' = newPopulation \o <<child1, bMutated>>
    /\ lpc' = "breed"
    /\ child1' = <<>>
    /\ bop' = "unused"
    /\ bpc' = "unused"
    /\ bAttempt' = 0
    /\ bParent1' = <<>>
    /\ bParent2' = <<>>
    /\ bChild1' = <<>>
    /\ bChild2' = <<>>
    /\ bRoute' = <<>>
    /\ bMutated' = <<>>
    /\ bRate' = <<>>
    /\ bOriginalRate' = <<>>
    /\ UNCHANGED <<loopFrame, cache, list, population, gen, best, lhist, bhist>>

\* After the breeding loop: newPopulation = newPopulation[:*popSize],
\* evaluatePopulation(newPopulation, dm, cache), population = newPopulation, gen++.
Replace ==
    /\ lpc = "breed"
    /\ Len(newPopulation) >= cfg.popSize
    /\ \E run \in evaluatePopulation(Truncate(newPopulation, cfg.popSize), dm,
                                     LRU(cache, list), capacity, workers) :
          /\ population' = run.population
          /\ cache' = run.lc.cache
          /\ list' = run.lc.list
          /\ lhist' = Seen([lhist EXCEPT !.replaced = FALSE], run.population)
    /\ newPopulation' = <<>>
    /\ gen' = gen + 1
    /\ lpc' = "generation"
    /\ UNCHANGED <<loopFrame, breedVars, best, child1>>

NextLoop ==
    \/ LoadInput
    \/ InitializePopulation
    \/ EvaluateInitial
    \/ Generation
    \/ Finish
    \/ SelectParents
    \/ CrossoverStep
    \/ CallMutateFirst
    \/ MutateStep
    \/ CallMutateSecond
    \/ AppendChildren
    \/ Replace

SpecLoop == InitLoop /\ [][NextLoop]_vars

(***************************************************************************)
(* Claims about the evolution loop, under SpecLoop.                        *)
(***************************************************************************)
\* C15: once best is set it never gets a larger distance, and it is replaced
\* only by a route of strictly smaller distance.
C15_BestNeverWorsens ==
    [][best # <<>> => (best' = best \/ best'.distance < best.distance)]_vars

\* C15 witness: the updateBest call of a generation after the first has
\* replaced best.
C15_Witness ==
    /\ lpc = "breed"
    /\ gen > 0
    /\ lhist.replaced

\* C16 (as claimed): when the run ends, the distance of best is at most every
\* distance evaluatePopulation left in a population of the run, the initial
\* population and the one of the last generation included.
C16_BestIsMinimumOfRun ==
    lpc = "done" => best.distance <= lhist.minSeen

\* C17: with 0 <= eliteSize <= popSize, the population holds popSize routes at
\* the start of every generation, during it and after the last one; after a
\* replacement its first eliteSize routes are the first eliteSize routes of the
\* population as sorted, none of which was longer than a route after them;
\* the breeding loop of a generation makes at most ceil((popSize-eliteSize)/2)
\* iterations and never holds more than popSize + 1 routes.
C17_PopulationSizeFixed ==
    (lpc \in {"generation", "breed", "crossover", "mutate1", "mutate2", "done"}
     /\ cfg.eliteSize <= cfg.popSize) =>
        /\ Len(population) = cfg.popSize
        /\ gen > 0 =>
              /\ lhist.smallest
              /\ Len(lhist.elites) = cfg.eliteSize
              /\ lpc \in {"generation", "done"} =>
                    \A i \in 1..cfg.eliteSize : population[i].path = lhist.elites[i]
        /\ lhist.breeds <= (cfg.popSize - cfg.eliteSize + 1) \div 2
        /\ Len(newPopulation) <= cfg.popSize + 1
        /\ lpc = "breed" => Len(newPopulation) >= cfg.eliteSize

\* C17 witness: a population of two with one elite has been replaced, the
\* elite and two children having been cut to two routes.
C17_Witness ==
    /\ lpc = "generation"
    /\ gen = 1
    /\ cfg.popSize = 2
    /\ cfg.eliteSize = 1
    /\ population[1].path = lhist.elites[1]
    /\ population[2].path # population[1].path

\* A configuration with more elites than routes, or an input without cities.
Malformed == cfg.eliteSize > cfg.popSize \/ NumCities(dm) = 0

\* C18 (as claimed): for a malformed configuration the program reports the
\* violation and exits, before the initial population is built and before any
\* generation.
C18_MalformedConfigReported ==
    Malformed => lpc \in {"start", "reported"}

\* Lemma (C11, the populations): every route of the population and of
\* newPopulation is a permutation of 1..N-1.
PopulationsHoldTours ==
    lpc \in {"evaluate", "generation", "breed", "crossover", "mutate1", "mutate2", "done"} =>
        /\ \A i \in DOMAIN population : IsTour(population[i].path, NumCities(dm))
        /\ \A i \in DOMAIN newPopulation : IsTour(newPopulation[i].path, NumCities(dm))

(***************************************************************************)
(* The cache for every capacity the -cache flag accepts.  flag.Int takes   *)
(* any integer and main hands it to NewLRUCache unchecked; capacity 0 is   *)
(* the smallest one explored here (a negative capacity takes the same      *)
(* path: lc.list.Len() >= lc.capacity holds on the empty list).            *)
(*                                                                         *)
(* On an empty list Back() returns nil, and oldest.Value dereferences it:  *)
(* a runtime panic (nil pointer dereference).  Nothing recovers it: the    *)
(* deferred Unlock() runs and the process exits, so no call goes on.       *)
(***************************************************************************)
Capacities == 0..MaxCapacity

InitCap ==
    /\ GaUnused
    /\ dm = <<>>
    /\ KeyUnused
    /\ EvalUnused
    /\ \E cap \in Capacities : NewLRUCache(cap)
    /\ CallersIdle
    /\ recency = <<>>
    /\ lastPut = [k \in Keys |-> NoValue]

\* No call has panicked: the process is alive.
Running == \A t \in Callers : cpc[t] # "panicked"

\* A statement of a Get or a Put of a running process.
CallStep == Running /\ NextCache

\* oldest := lc.list.Back(); delete(lc.cache, oldest.Value.(*cacheEntry).key)
\* with Back() = nil: the panic, the deferred Unlock() and the exit.
PutBackNil(t) ==
    /\ Running
    /\ cpc[t] = "Put_delete"
    /\ Len(list) = 0
    /\ cpc' = [cpc EXCEPT ![t] = "panicked"]
    /\ mutex' = NoOwner
    /\ UNCHANGED <<nonCacheVars, capacity, cache, list, ckey, cval, cfound, cret, coldest, histVars>>

NextCap ==
    \/ CallStep
    \/ \E t \in Callers : PutBackNil(t)

SpecCap == InitCap /\ [][NextCap]_vars

(***************************************************************************)
(* Claims about the cache of any accepted capacity, under SpecCap.         *)
(***************************************************************************)

\* C21 (as claimed): for a cache built with any capacity the configuration
\* accepts, 0 included, every get and every put completes normally: no call
\* ends in a runtime failure.
C21_CacheOperationsCannotFail ==
    \A t \in Callers : cpc[t] # "panicked"

\* With a capacity of at least 1 no call fails: a full list is not empty,
\* so Back() is an element whenever Put evicts.
PositiveCapacityNeverFails ==
    capacity >= 1 => /\ Running
                     /\ \A t \in Callers : cpc[t] = "Put_delete" => Len(list) > 0

\* Gets alone never fail, whatever the capacity: a call inside Get is never
\* the one that panics, and on a cache of capacity 0 every Get is a miss.
GetNeverFails ==
    /\ \A t \in Callers : cpc[t] = "panicked" => ckey[t] # NoKey /\ cval[t] # NoValue
    /\ capacity = 0 => cache = {} /\ list = <<>>

=============================================================================
